---- MODULE Spec2Model ----
(***************************************************************************)
(* State-machine model of the signals-saas-frontend dashboard:             *)
(*   - AnalysisApp (position editor, ticker resolution, analysis           *)
(*     submission, portfolio and analysis save handlers),                  *)
(*   - the data hooks usePortfolios / useAnalyses / useAlerts.             *)
(*                                                                         *)
(* JavaScript strings are modelled as tuples: free text (queries, ticker   *)
(* symbols, response bodies) as tuples of one-character strings, fixed     *)
(* messages as one-element tuples, concatenation as \o.  null is the       *)
(* tuple `null`.  An event handler runs to its first await in one step;    *)
(* every continuation after an await is a step of its own.                 *)
(***************************************************************************)
EXTENDS Integers, Sequences, FiniteSets, TLC

\* ------------------------------------------------------------------ bounds
MaxUid == 3
MaxResolve == 2
MaxEdits == 2
MaxOutstanding == 2
MaxCalls == 2
MaxSaves == 1
MaxGestures == 4
MaxSelect == 2
MaxRuns == 2

\* ------------------------------------------------------- program constants
DefaultLong == 1000000
DefaultShort == -1000000
DefaultDays == 180

null == <<"null">>

DefaultName == <<"Long/Short Portfolio">>

\* Texts a user types as the portfolio name.
TypedNames == {DefaultName, <<"n">>}

\* Options of the analysis period select the model uses (of 30, 60, 90, 180, 365).
PeriodOptions == {30, DefaultDays}

\* The name saved portfolios carry.
SavedName == <<"Saved portfolio">>

\* No report is shown: no payload produced one.
NoPayload == [positions |-> <<>>, portfolio_name |-> null, analysis_period_days |-> 0]

\* Ticker symbols the resolve endpoint and saved portfolios can carry.
Symbols == {<<"A">>, <<"B">>}

\* Texts a user types in a ticker input.
TypedQueries == {<<>>, <<" ">>, <<"a">>}

\* Values a user types in an amount input (the empty input reads as 0).
AmountInputs == {0, 100}

\* Candidate lists a /resolve response can carry (data.candidates || []).
CandLists == {<<>>, <<<<"B">>, <<"A">>>>}

\* Messages of a rejected fetch or a failed body parse ("" when absent).
RejectMessages == {<<"Failed to fetch">>}

VARIABLES
    rows,          \* useState<PositionRow[]>
    nextUid,       \* number of ids uid() has handed out
    abortRefs,     \* abortRefs.current: row id -> request of its AbortController (0: none)
    resolveReqs,   \* GET /resolve requests whose promise has not settled in resolveRow
    nextReq,       \* number of /resolve requests issued
    edits,         \* number of input onChange events so far
    running,       \* useState(false)
    runError,      \* useState<string | null>(null)
    html,          \* useState<string>("")
    validityData,  \* useState<any>(null)
    analysisSaved, \* useState(false)
    analyzeReqs,   \* POST /analyze requests awaited by runAnalysis, oldest first
    selectedPortfolioId, \* useState<string | null>(null); ids are numbers, 0 is null
    saveModalOpen, \* useState(false)
    modalSaving,   \* SavePortfolioModal: useState(false)
    analysisSaving, \* useState(false)
    portfolios,    \* usePortfolios: useState<Portfolio[]>([])
    analyses,      \* useAnalyses: useState<AnalysisSummary[]>([])
    total,         \* useAnalyses: useState(0)
    alerts,        \* useAlerts: useState<Alert[]>([])
    unreadCount,   \* useAlerts: useState(0)
    loading,       \* the three hooks' loading flags
    error,         \* the three hooks' error messages
    mounted,       \* the hooks the rendered component uses
    calls,         \* hook calls awaiting authFetch
    nextCall,      \* number of hook calls made since the mount fetches
    thrown,        \* the last error a hook mutator threw: [cid, op, message]
    unhandled,     \* message of the last rejection no UI event handler caught (null: none)
    deletingId,    \* HistoryPanel: useState<string | null>(null); 0 is null
    loadingId,     \* HistoryPanel: useState<string | null>(null); 0 is null
    viewingHistoryHtml, \* useState<string | null>(null)
    toasts,        \* useState<Toast[]>([])
    timers,        \* ids of the toasts whose setTimeout callback has not run yet
    nextToast,     \* number of toasts shown so far
    toolbarDeletingId, \* PortfolioToolbar: deletingId, useState<string | null>(null); 0 is null
    file,          \* UploadDataPanel: useState<File | null>(null)
    validation,    \* UploadDataPanel: useState<ValidationResult | null>(null)
    seriesWeights, \* UploadDataPanel: useState<SeriesWeight[]>([])
    uploadError,   \* UploadDataPanel: error, useState<string | null>(null)
    htmlResult,    \* UploadDataPanel: useState<string | null>(null)
    dataDeleted,   \* UploadDataPanel: useState(false)
    isValidating,  \* UploadDataPanel: useState(false)
    isAnalyzing,   \* UploadDataPanel: useState(false)
    validateReqs,  \* POST /validate/upload requests awaited by handleFileSelect
    customReqs,    \* POST /analyze/custom requests awaited by the panel's runAnalysis, oldest first
    nextSelect,    \* number of files selected or dropped so far
    nextRun,       \* number of /analyze/custom requests issued so far
    portfolioName, \* useState("Long/Short Portfolio")
    days,          \* useState(180)
    reportPayload  \* history: the payload runAnalysis sent for the report html holds

editorVars == <<rows, nextUid, abortRefs, resolveReqs, nextReq, edits>>
runVars == <<running, runError, html, validityData, analysisSaved, analyzeReqs>>
saveVars == <<selectedPortfolioId, saveModalOpen, modalSaving, analysisSaving>>
hookState == <<portfolios, analyses, total, alerts, unreadCount>>
historyVars == <<deletingId, loadingId, viewingHistoryHtml>>
toastVars == <<toasts, timers, nextToast>>
toolbarVars == <<toolbarDeletingId>>
uploadVars == <<file, validation, seriesWeights, uploadError, htmlResult, dataDeleted,
                isValidating, isAnalyzing, validateReqs, customReqs, nextSelect, nextRun>>
formVars == <<portfolioName, days>>
reportVars == <<reportPayload>>
hookVars == <<hookState, loading, error, mounted, calls, nextCall, thrown, unhandled>>
appVars == <<editorVars, runVars, saveVars, historyVars, toastVars, toolbarVars, uploadVars, formVars, reportVars>>
vars == <<editorVars, runVars, saveVars, historyVars, toastVars, toolbarVars, uploadVars, formVars, reportVars, hookVars>>

\* ----------------------------------------------------------------- helpers

\* JavaScript truthiness of a string-or-null.
Truthy(s) == s # null /\ s # <<>>

IsSpace(c) == c = " "

RECURSIVE TrimStart(_)
TrimStart(s) ==
    IF s # <<>> /\ IsSpace(Head(s)) THEN TrimStart(Tail(s)) ELSE s

RECURSIVE TrimEnd(_)
TrimEnd(s) ==
    IF s # <<>> /\ IsSpace(s[Len(s)]) THEN TrimEnd(SubSeq(s, 1, Len(s) - 1)) ELSE s

\* String.prototype.trim
Trim(s) == TrimEnd(TrimStart(s))

\* { ...r, ...patch }
Merge(r, patch) == patch @@ r

NewRow(id, amount) ==
    [id |-> id, query |-> <<>>, resolvedSymbol |-> null, amount |-> amount,
     candidates |-> <<>>, loading |-> FALSE, error |-> null]

\* updateRow: setRows(prev => prev.map(r => r.id === id ? {...r, ...patch} : r))
updateRow(rs, id, patch) ==
    [i \in DOMAIN rs |-> IF rs[i].id = id THEN Merge(rs[i], patch) ELSE rs[i]]

RowIds == 1..MaxUid

\* Edits, lookups, hook calls, file selections and upload runs of the session so far.
Gestures == edits + nextReq + nextCall + nextSelect + nextRun

\* ------------------------------------------------------------------ toasts

\* Faulty variant: a removal that takes the older toasts along.
removeToastAndOlder(ts, id) == SelectSeq(ts, LAMBDA t : t.id > id)

\* prev.filter(t => t.id !== id)
removeToast(ts, id) == SelectSeq(ts, LAMBDA t : t.id # id)

\* showToast(type, message): const id = uid(); append; setTimeout(remove, 4000).
\* uid() draws a fresh id at every call.
showToast(type, message) ==
    LET id == nextToast + 1
    IN /\ toasts' = Append(toasts, [id |-> id, type |-> type, message |-> message])
       /\ timers' = timers \cup {id}
       /\ nextToast' = id

\* The setTimeout callback of toast id runs: every delay is the same 4000 ms, so
\* the callbacks run in the order the toasts were shown.
ToastExpires(id) ==
    /\ id \in timers
    /\ \A other \in timers : id <= other
    /\ timers' = timers \ {id}
    /\ toasts' = removeToast(toasts, id)
    /\ UNCHANGED <<nextToast, editorVars, runVars, saveVars, historyVars, toolbarVars, uploadVars, formVars, reportVars, hookVars>>

\* ToastContainer close button: onDismiss(toast.id)
dismissToast(id) ==
    /\ \E k \in DOMAIN toasts : toasts[k].id = id
    /\ toasts' = removeToast(toasts, id)
    /\ UNCHANGED <<timers, nextToast, editorVars, runVars, saveVars, historyVars, toolbarVars, uploadVars, formVars, reportVars, hookVars>>

\* ---------------------------------------------------------------- row edits

\* ticker input onChange
EditQuery(i, val) ==
    /\ i \in DOMAIN rows
    /\ val # rows[i].query
    /\ rows' = updateRow(rows, rows[i].id,
                 [query |-> val, resolvedSymbol |-> null,
                  candidates |-> <<>>, error |-> null])
    /\ UNCHANGED <<nextUid, abortRefs, resolveReqs, nextReq, runVars, saveVars, historyVars, toastVars, toolbarVars, uploadVars, formVars, reportVars, hookVars>>
    /\ edits < MaxEdits
    /\ Gestures < MaxGestures
    /\ edits' = edits + 1

\* amount input onChange: Number(e.target.value) || 0
EditAmount(i, a) ==
    /\ i \in DOMAIN rows
    /\ a # rows[i].amount
    /\ rows' = updateRow(rows, rows[i].id, [amount |-> a])
    /\ UNCHANGED <<nextUid, abortRefs, resolveReqs, nextReq, runVars, saveVars, historyVars, toastVars, toolbarVars, uploadVars, formVars, reportVars, hookVars>>
    /\ edits < MaxEdits
    /\ Gestures < MaxGestures
    /\ edits' = edits + 1

addRow ==
    /\ nextUid < MaxUid
    /\ rows' = Append(rows, NewRow(nextUid + 1, 0))
    /\ nextUid' = nextUid + 1
    /\ UNCHANGED <<abortRefs, resolveReqs, nextReq, edits, runVars, saveVars, historyVars, toastVars, toolbarVars, uploadVars, formVars, reportVars, hookVars>>

\* remove button (disabled while rows.length <= 2) and removeRow's own guard
removeRow(i) ==
    /\ i \in DOMAIN rows
    /\ ~(Len(rows) <= 2)
    /\ rows' = SelectSeq(rows, LAMBDA r : r.id # rows[i].id)
    /\ UNCHANGED <<nextUid, abortRefs, resolveReqs, nextReq, edits, runVars, saveVars, historyVars, toastVars, toolbarVars, uploadVars, formVars, reportVars, hookVars>>

\* candidate button onClick (rendered while candidates.length > 0 && !resolvedSymbol)
SelectCandidate(i, k) ==
    /\ i \in DOMAIN rows
    /\ Len(rows[i].candidates) > 0
    /\ ~Truthy(rows[i].resolvedSymbol)
    /\ k \in DOMAIN rows[i].candidates
    /\ rows' = updateRow(rows, rows[i].id,
                 [resolvedSymbol |-> rows[i].candidates[k],
                  query |-> rows[i].candidates[k],
                  candidates |-> <<>>])
    /\ UNCHANGED <<nextUid, abortRefs, resolveReqs, nextReq, edits, runVars, saveVars, historyVars, toastVars, toolbarVars, uploadVars, formVars, reportVars, hookVars>>

\* ------------------------------------------------------------ resolveRow

\* Faulty variant: resolveRow without the abort.
AbortNone(reqs, rid) == reqs

\* abortRefs.current[id]?.abort(): the controller's request, if still pending,
\* will reject with an AbortError.
AbortPrev(reqs, rid) ==
    {IF q.rid = rid THEN [q EXCEPT !.aborted = TRUE] ELSE q : q \in reqs}

\* resolveRow with an empty trimmed query: reset, no request.
ResolveRowEmpty(i) ==
    /\ i \in DOMAIN rows
    /\ Trim(rows[i].query) = <<>>
    /\ rows' = updateRow(rows, rows[i].id,
                 [candidates |-> <<>>, loading |-> FALSE, error |-> null])
    /\ UNCHANGED <<nextUid, abortRefs, resolveReqs, nextReq, edits, runVars, saveVars, historyVars, toastVars, toolbarVars, uploadVars, formVars, reportVars, hookVars>>

\* resolveRow with a query: cancel the row's request, issue a new one.
ResolveRowQuery(i) ==
    /\ i \in DOMAIN rows
    /\ Trim(rows[i].query) # <<>>
    /\ nextReq < MaxResolve
    /\ Gestures < MaxGestures
    /\ LET id == rows[i].id
           ac == nextReq + 1
       IN /\ resolveReqs' = AbortPrev(resolveReqs, abortRefs[id]) \cup
                {[rid |-> ac, row |-> id, query |-> Trim(rows[i].query),
                  aborted |-> FALSE]}
          /\ abortRefs' = [abortRefs EXCEPT ![id] = ac]
          /\ nextReq' = ac
          /\ rows' = updateRow(rows, id, [loading |-> TRUE, error |-> null])
    /\ UNCHANGED <<nextUid, edits, runVars, saveVars, historyVars, toastVars, toolbarVars, uploadVars, formVars, reportVars, hookVars>>

\* ticker input onBlur, and onKeyDown with Enter: resolveRow(row.id, row.query)
resolveRow(i) == ResolveRowEmpty(i) \/ ResolveRowQuery(i)

\* Faulty variant: a catch that reports the AbortError as well.
CatchAlways(rs, id, e) ==
    updateRow(rs, id, [loading |-> FALSE,
                       error |-> IF Truthy(e.message) THEN e.message ELSE <<"Search error">>])

\* catch (e) { if (e.name !== "AbortError") updateRow(id, {loading:false, error: e.message || "Search error"}) }
CatchResolve(rs, id, e) ==
    IF e.name # "AbortError"
    THEN updateRow(rs, id, [loading |-> FALSE,
                            error |-> IF Truthy(e.message) THEN e.message ELSE <<"Search error">>])
    ELSE rs

\* Faulty variant: the candidate-list branch leaves the row searching.
ApplyResolvedStillLoading(rs, id, data) ==
    IF data.auto_selected /\ Len(data.candidates) > 0
    THEN updateRow(rs, id, [resolvedSymbol |-> data.candidates[1],
                            candidates |-> <<>>, loading |-> FALSE])
    ELSE updateRow(rs, id, [candidates |-> data.candidates])

\* The success branch of resolveRow, given the parsed body.
ApplyResolved(rs, id, data) ==
    IF data.auto_selected /\ Len(data.candidates) > 0
    THEN updateRow(rs, id, [resolvedSymbol |-> data.candidates[1],
                            candidates |-> <<>>, loading |-> FALSE])
    ELSE updateRow(rs, id, [candidates |-> data.candidates, loading |-> FALSE])

\* A cancelled request settles: fetch (or res.json()) rejects with an AbortError.
ResolveAborted(q) ==
    /\ q \in resolveReqs
    /\ q.aborted
    /\ rows' = CatchResolve(rows, q.row,
                 [name |-> "AbortError", message |-> <<"The user aborted a request.">>])
    /\ resolveReqs' = resolveReqs \ {q}
    /\ UNCHANGED <<nextUid, abortRefs, nextReq, edits, runVars, saveVars, historyVars, toastVars, toolbarVars, uploadVars, formVars, reportVars, hookVars>>

\* fetch rejects (transport failure) or res.json() rejects (bad body).
ResolveRejected(q, msg) ==
    /\ q \in resolveReqs
    /\ ~q.aborted
    /\ rows' = CatchResolve(rows, q.row, [name |-> "TypeError", message |-> msg])
    /\ resolveReqs' = resolveReqs \ {q}
    /\ UNCHANGED <<nextUid, abortRefs, nextReq, edits, runVars, saveVars, historyVars, toastVars, toolbarVars, uploadVars, formVars, reportVars, hookVars>>

\* fetch resolves with a response that is not ok: throw new Error("Search failed").
ResolveNotOk(q) ==
    /\ q \in resolveReqs
    /\ ~q.aborted
    /\ rows' = CatchResolve(rows, q.row, [name |-> "Error", message |-> <<"Search failed">>])
    /\ resolveReqs' = resolveReqs \ {q}
    /\ UNCHANGED <<nextUid, abortRefs, nextReq, edits, runVars, saveVars, historyVars, toastVars, toolbarVars, uploadVars, formVars, reportVars, hookVars>>

\* fetch resolves with an ok response and res.json() resolves with its body.
ResolveData(q, data) ==
    /\ q \in resolveReqs
    /\ ~q.aborted
    /\ rows' = ApplyResolved(rows, q.row, data)
    /\ resolveReqs' = resolveReqs \ {q}
    /\ UNCHANGED <<nextUid, abortRefs, nextReq, edits, runVars, saveVars, historyVars, toastVars, toolbarVars, uploadVars, formVars, reportVars, hookVars>>

ResolveResponses == [candidates : CandLists, auto_selected : BOOLEAN]


\* -------------------------------------------------------- computed values

\* Math.abs
Abs(x) == IF x < 0 THEN -x ELSE x

\* reduce((s, x) => s + x, 0) over the terms the callback adds
RECURSIVE Sum(_)
Sum(ns) == IF ns = <<>> THEN 0 ELSE Sum(SubSeq(ns, 1, Len(ns) - 1)) + ns[Len(ns)]

\* rows.reduce((s, r) => s + Math.abs(Number(r.amount || 0)), 0)
gross(rs) == Sum([k \in DOMAIN rs |-> Abs(rs[k].amount)])

\* rows.reduce((s, r) => s + Number(r.amount || 0), 0)
net(rs) == Sum([k \in DOMAIN rs |-> rs[k].amount])

\* rows.reduce((s, r) => s + (Number(r.amount || 0) > 0 ? Number(r.amount) : 0), 0)
longExposure(rs) ==
    Sum([k \in DOMAIN rs |-> IF rs[k].amount > 0 THEN rs[k].amount ELSE 0])

\* Faulty variant: the short side summed with its sign.
shortExposureSigned(rs) ==
    Sum([k \in DOMAIN rs |-> IF rs[k].amount < 0 THEN rs[k].amount ELSE 0])

\* rows.reduce((s, r) => s + (Number(r.amount || 0) < 0 ? Math.abs(Number(r.amount)) : 0), 0)
shortExposure(rs) ==
    Sum([k \in DOMAIN rs |-> IF rs[k].amount < 0 THEN Abs(rs[k].amount) ELSE 0])

\* ------------------------------------------------------------ runAnalysis

MsgNoPositions == <<"Please add at least one position with a resolved ticker and amount.">>
MsgMissingTicker == <<"One or more positions has an amount but no selected ticker.">>
MsgSessionExpired == <<"Session expired. Please refresh.">>
MsgRateLimit == <<"Rate limit exceeded. Please wait.">>
MsgRunFailed == <<"Failed to run analysis">>

\* Faulty variant: positions built from the typed query.
PositionsOfQuery(rs) ==
    LET kept == SelectSeq(rs, LAMBDA r : Truthy(r.query) /\ r.amount # 0)
    IN [k \in DOMAIN kept |-> [ticker |-> kept[k].query, amount |-> kept[k].amount]]

\* Faulty variant: positions kept whatever their amount.
PositionsAnyAmount(rs) ==
    LET kept == SelectSeq(rs, LAMBDA r : Truthy(r.resolvedSymbol))
    IN [k \in DOMAIN kept |-> [ticker |-> kept[k].resolvedSymbol, amount |-> kept[k].amount]]

\* rows.filter(r => r.resolvedSymbol && Number(r.amount || 0) !== 0)
\*     .map(r => ({ticker: r.resolvedSymbol, amount: Number(r.amount)}))
currentPositions(rs) ==
    LET kept == SelectSeq(rs, LAMBDA r : Truthy(r.resolvedSymbol) /\ r.amount # 0)
    IN [k \in DOMAIN kept |-> [ticker |-> kept[k].resolvedSymbol, amount |-> kept[k].amount]]

\* The same filter and map, as written inside runAnalysis.
runPositions(rs) ==
    LET kept == SelectSeq(rs, LAMBDA r : Truthy(r.resolvedSymbol) /\ r.amount # 0)
    IN [k \in DOMAIN kept |-> [ticker |-> kept[k].resolvedSymbol, amount |-> kept[k].amount]]

allResolved == \A i \in DOMAIN rows : Truthy(rows[i].resolvedSymbol) \/ rows[i].amount = 0
hasPositions == \E i \in DOMAIN rows : Truthy(rows[i].resolvedSymbol) /\ rows[i].amount # 0

\* rows.find(r => Number(r.amount || 0) !== 0 && !r.resolvedSymbol)
HasBadRow(rs) == \E i \in DOMAIN rs : rs[i].amount # 0 /\ ~Truthy(rs[i].resolvedSymbol)

\* Faulty variant: a button that stays enabled while a run is outstanding.
RunDisabledIgnoringRunning == ~allResolved \/ ~hasPositions

\* Run Analysis button: disabled={running || !allResolved || !hasPositions}
RunDisabled == running \/ ~allResolved \/ ~hasPositions

\* runAnalysis up to its await: resets, client-side validation, POST /analyze.
runAnalysis ==
    /\ html' = <<>>
    /\ analysisSaved' = FALSE
    /\ validityData' = null
    /\ reportPayload' = NoPayload
    /\ LET positions == runPositions(rows)
       IN IF Len(positions) = 0
          THEN /\ runError' = MsgNoPositions
               /\ UNCHANGED <<running, analyzeReqs>>
          ELSE IF HasBadRow(rows)
          THEN /\ runError' = MsgMissingTicker
               /\ UNCHANGED <<running, analyzeReqs>>
          ELSE /\ runError' = null
               /\ running' = TRUE
               /\ analyzeReqs' = Append(analyzeReqs,
                    [positions |-> positions, portfolio_name |-> portfolioName,
                     analysis_period_days |-> days])
    /\ UNCHANGED <<editorVars, saveVars, historyVars, toastVars, toolbarVars, uploadVars, formVars, hookVars>>

\* Run Analysis button onClick
ClickRunAnalysis ==
    /\ ~RunDisabled
    /\ runAnalysis

\* runAnalysis called whatever the button shows (at most MaxOutstanding awaited at once).
CallRunAnalysis ==
    /\ Len(analyzeReqs) < MaxOutstanding
    /\ runAnalysis

\* Outcomes of POST /analyze: a rejected fetch (status 0, text: the error's message),
\* or a response with a status, a body text and, when ok, the parsed body.
AnalyzeResponses ==
    [status : {0}, text : RejectMessages, html_report : {null}, validity : {null}]
    \cup [status : {401, 429}, text : {<<>>}, html_report : {null}, validity : {null}]
    \cup [status : {500}, text : {<<>>, <<"boom">>}, html_report : {null}, validity : {null}]
    \cup [status : {200}, text : {<<>>}, html_report : {null, <<"<html>">>},
          validity : {null, <<"valid">>}]

ResOk(res) == res.status >= 200 /\ res.status <= 299

\* Faulty variant: 401 and 429 reported as any other failure.
AnalyzeErrorGeneric(res) ==
    IF res.status = 0
    THEN (IF Truthy(res.text) THEN res.text ELSE MsgRunFailed)
    ELSE <<"Analysis failed: ">> \o
         (IF Truthy(res.text) THEN res.text ELSE <<"HTTP ", ToString(res.status)>>)

\* The message runAnalysis's catch stores for a failed submission.
AnalyzeError(res) ==
    IF res.status = 0
    THEN (IF Truthy(res.text) THEN res.text ELSE MsgRunFailed)
    ELSE IF res.status = 401 THEN MsgSessionExpired
    ELSE IF res.status = 429 THEN MsgRateLimit
    ELSE <<"Analysis failed: ">> \o
         (IF Truthy(res.text) THEN res.text ELSE <<"HTTP ", ToString(res.status)>>)

\* runAnalysis after its await: try body, catch, finally.
AnalyzeSettled(k, res) ==
    /\ k \in DOMAIN analyzeReqs
    /\ analyzeReqs' = [j \in 1..(Len(analyzeReqs) - 1) |->
                         IF j < k THEN analyzeReqs[j] ELSE analyzeReqs[j + 1]]
    /\ IF ResOk(res)
       THEN /\ html' = (IF Truthy(res.html_report) THEN res.html_report ELSE <<>>)
            /\ validityData' = (IF Truthy(res.validity) THEN res.validity \o null
                                ELSE validityData)
            /\ runError' = runError
            /\ reportPayload' = (IF Truthy(res.html_report) THEN analyzeReqs[k] ELSE NoPayload)
       ELSE /\ runError' = AnalyzeError(res)
            /\ UNCHANGED <<html, validityData, reportPayload>>
    /\ running' = FALSE
    /\ UNCHANGED <<analysisSaved, editorVars, saveVars, historyVars, toastVars, toolbarVars, uploadVars, formVars, hookVars>>


\* ------------------------------------------------------------- data hooks

\* A created item gets an id no other item has.
CreatedId(cid) == 10 + cid

noError == [cid |-> 0, op |-> "none", message |-> null]

\* What authFetch can answer: a response that is ok, a response that is not
\* (its body with or without a detail field), or a rejected promise.
HookResponses ==
    [kind : {"ok", "reject"}, detail : {null}]
    \cup [kind : {"http"}, detail : {null, <<"detail from the server">>}]

MsgFetchRejected == <<"Failed to fetch">>

\* const err = await res.json().catch(() => ({})); throw new Error(err.detail || fallback)
DetailOr(res, fallback) ==
    IF res.kind = "reject" THEN MsgFetchRejected
    ELSE IF Truthy(res.detail) THEN res.detail ELSE fallback

\* if (!res.ok) throw new Error(message)
FixedMessage(res, message) ==
    IF res.kind = "reject" THEN MsgFetchRejected ELSE message

savePortfolioError(res) == DetailOr(res, <<"Failed to save portfolio">>)
deletePortfolioError(res) == DetailOr(res, <<"Failed to delete portfolio">>)
saveAnalysisError(res) == DetailOr(res, <<"Failed to save analysis">>)
deleteAnalysisError(res) == DetailOr(res, <<"Failed to delete analysis">>)
markAsReadError(res) == FixedMessage(res, <<"Failed to mark alert as read">>)
markAllAsReadError(res) == FixedMessage(res, <<"Failed to mark all alerts as read">>)
deleteAlertError(res) == FixedMessage(res, <<"Failed to delete alert">>)

\* Lists of server ids, as a collection fetch returns them.
IdLists == {<<>>, <<1>>, <<2, 1>>}

SavedPositions == {<<[ticker |-> <<"A">>, amount |-> 100]>>}

PortfolioLists ==
    {[k \in DOMAIN l |-> [id |-> l[k], name |-> SavedName, positions |-> <<[ticker |-> <<"A">>, amount |-> 100]>>]]
        : l \in IdLists}

AnalysisLists == {[k \in DOMAIN l |-> [id |-> l[k]]] : l \in IdLists}

AlertLists ==
    {<<>>, <<[id |-> 1, is_read |-> FALSE]>>}
    \cup {<<[id |-> 1, is_read |-> FALSE], [id |-> 2, is_read |-> t]>> : t \in BOOLEAN}

Unread(as) == Cardinality({k \in DOMAIN as : ~as[k].is_read})

Ids(items) == {items[k].id : k \in DOMAIN items}

NoBody == [positions |-> <<>>, description |-> null, html_report |-> null, portfolio_id |-> 0,
           portfolio_name |-> null, analysis_period_days |-> 0]
NoSnap == [selected |-> 0, alerts |-> <<>>]

\* The mount fetches are calls 1..MountCalls.
MountCalls == Cardinality({"portfolios", "analyses", "alerts"})

\* A hook function runs to its await of authFetch.
Call(op, id, body, snap, from) ==
    /\ nextCall < (IF from = "hook" THEN MaxCalls ELSE MaxSaves)
    /\ Gestures < MaxGestures
    /\ nextCall' = nextCall + 1
    /\ calls' = calls \cup {[cid |-> MountCalls + nextCall + 1, op |-> op, id |-> id,
                             body |-> body, snap |-> snap, from |-> from]}
    /\ mounted' = mounted
    /\ unhandled' = unhandled

\* Call sites that await a hook function inside try/finally without a catch
\* (HistoryPanel.handleView through handleViewAnalysis, HistoryPanel.handleDelete).
NoCatch == {"HistoryPanel.handleView", "HistoryPanel.handleDelete"}

\* The hook function rejects: the error reaches its caller, and leaves the
\* caller's event handler when that handler has no catch.
Throw(c, message) ==
    /\ thrown' = [cid |-> c.cid, op |-> c.op, message |-> message]
    /\ unhandled' = (IF c.from \in NoCatch THEN message ELSE unhandled)

\* The hook function resolves.
Return == thrown' = thrown /\ unhandled' = unhandled

\* ---- usePortfolios

\* fetchPortfolios (refetch)
fetchPortfolios ==
    /\ "portfolios" \in mounted
    /\ Call("fetchPortfolios", 0, NoBody, NoSnap, "hook")
    /\ loading' = [loading EXCEPT !.portfolios = TRUE]
    /\ UNCHANGED <<appVars, hookState, error, thrown>>

fetchPortfoliosSettled(c, res, data) ==
    /\ c \in calls /\ c.op = "fetchPortfolios"
    /\ calls' = calls \ {c}
    /\ IF res.kind = "ok"
       THEN /\ portfolios' = data
            /\ error' = [error EXCEPT !.portfolios = null]
       ELSE /\ portfolios' = portfolios
            /\ error' = [error EXCEPT !.portfolios =
                            FixedMessage(res, <<"Failed to fetch portfolios">>)]
    /\ loading' = [loading EXCEPT !.portfolios = FALSE]
    /\ UNCHANGED <<appVars, analyses, total, alerts, unreadCount, mounted, nextCall, thrown, unhandled>>

\* setPortfolios(prev => [portfolio, ...prev]), reached only when res.ok
savePortfolioPatch(res, ps, created) ==
    IF res.kind = "ok" THEN <<created>> \o ps ELSE ps

\* setPortfolios(prev => prev.filter(p => p.id !== id)), reached only when res.ok
deletePortfolioPatch(res, ps, id) ==
    IF res.kind = "ok" THEN SelectSeq(ps, LAMBDA p : p.id # id) ELSE ps

\* options?.description || null
OptionsDescription(options) ==
    IF options.type = "object" /\ Truthy(options.description)
    THEN options.description ELSE null

\* savePortfolio(name, positions, options) up to its await
savePortfolio(positions, options, from) ==
    /\ "portfolios" \in mounted
    /\ Call("savePortfolio", 0,
         [NoBody EXCEPT !.positions = positions,
                        !.description = OptionsDescription(options)],
         NoSnap, from)

\* savePortfolio after its await, then the caller's continuation.
savePortfolioSettled(c, res) ==
    /\ c \in calls /\ c.op = "savePortfolio"
    /\ calls' = calls \ {c}
    /\ LET created == [id |-> CreatedId(c.cid), name |-> SavedName, positions |-> c.body.positions]
       IN portfolios' = savePortfolioPatch(res, portfolios, created)
    /\ IF res.kind = "ok" THEN Return ELSE Throw(c, savePortfolioError(res))
    /\ IF c.from = "handleSavePortfolio"
       THEN /\ selectedPortfolioId' =
                  (IF res.kind = "ok" THEN CreatedId(c.cid) ELSE selectedPortfolioId)
            /\ saveModalOpen' = FALSE
            /\ modalSaving' = FALSE
            /\ IF res.kind = "ok"
               THEN showToast("success", <<"Portfolio saved!">>)
               ELSE showToast("error", IF Truthy(savePortfolioError(res))
                                       THEN savePortfolioError(res)
                                       ELSE <<"Failed to save portfolio">>)
       ELSE UNCHANGED <<selectedPortfolioId, saveModalOpen, modalSaving, toastVars>>
    /\ UNCHANGED <<editorVars, runVars, analysisSaving, historyVars, toolbarVars, uploadVars, formVars, reportVars, analyses, total, alerts,
                   unreadCount, loading, error, mounted, nextCall>>

deletePortfolio(id, from) ==
    /\ id \in Ids(portfolios)
    /\ Call("deletePortfolio", id, NoBody, [NoSnap EXCEPT !.selected = selectedPortfolioId], from)

deletePortfolioSettled(c, res) ==
    /\ c \in calls /\ c.op = "deletePortfolio"
    /\ calls' = calls \ {c}
    /\ portfolios' = deletePortfolioPatch(res, portfolios, c.id)
    /\ IF res.kind = "ok" THEN Return ELSE Throw(c, deletePortfolioError(res))
    /\ IF c.from = "handleDeletePortfolio" /\ res.kind = "ok" /\ c.snap.selected = c.id
       THEN selectedPortfolioId' = 0
       ELSE selectedPortfolioId' = selectedPortfolioId
    /\ toolbarDeletingId' = (IF c.from = "handleDeletePortfolio" THEN 0 ELSE toolbarDeletingId)
    /\ IF c.from # "handleDeletePortfolio" THEN UNCHANGED toastVars
       ELSE IF res.kind = "ok" THEN showToast("success", <<"Portfolio deleted">>)
       ELSE showToast("error", IF Truthy(deletePortfolioError(res))
                               THEN deletePortfolioError(res)
                               ELSE <<"Failed to delete portfolio">>)
    /\ UNCHANGED <<editorVars, runVars, saveModalOpen, modalSaving, analysisSaving, historyVars, uploadVars, formVars, reportVars,
                   analyses, total, alerts, unreadCount, loading, error, mounted, nextCall>>

\* ---- useAnalyses

fetchAnalyses ==
    /\ "analyses" \in mounted
    /\ Call("fetchAnalyses", 0, NoBody, NoSnap, "hook")
    /\ loading' = [loading EXCEPT !.analyses = TRUE]
    /\ UNCHANGED <<appVars, hookState, error, thrown>>

\* setAnalyses(data.analyses || []); setTotal(data.total || 0)
fetchAnalysesSettled(c, res, data) ==
    /\ c \in calls /\ c.op = "fetchAnalyses"
    /\ calls' = calls \ {c}
    /\ IF res.kind = "ok"
       THEN /\ analyses' = data
            /\ total' = Len(data)
            /\ error' = [error EXCEPT !.analyses = null]
       ELSE /\ UNCHANGED <<analyses, total>>
            /\ error' = [error EXCEPT !.analyses =
                            FixedMessage(res, <<"Failed to fetch analyses">>)]
    /\ loading' = [loading EXCEPT !.analyses = FALSE]
    /\ UNCHANGED <<appVars, portfolios, alerts, unreadCount, mounted, nextCall, thrown, unhandled>>

\* setAnalyses(prev => [analysis, ...prev]); setTotal(prev => prev + 1)
saveAnalysisPatch(res, as, created) ==
    IF res.kind = "ok" THEN <<created>> \o as ELSE as

saveAnalysisTotal(res, tot) == IF res.kind = "ok" THEN tot + 1 ELSE tot

\* Faulty variant: a delete that drops the newest analysis whatever its id.
deleteAnalysisPatchHead(res, as, id) ==
    IF res.kind = "ok" /\ as # <<>> THEN Tail(as) ELSE as

\* setAnalyses(prev => prev.filter(a => a.id !== id)); setTotal(prev => prev - 1)
deleteAnalysisPatch(res, as, id) ==
    IF res.kind = "ok" THEN SelectSeq(as, LAMBDA a : a.id # id) ELSE as

\* Faulty variant: the total decremented before the response is tested.
deleteAnalysisTotalAlways(res, tot) == tot - 1

deleteAnalysisTotal(res, tot) == IF res.kind = "ok" THEN tot - 1 ELSE tot

\* saveAnalysis(portfolioName, positions, days, {}, html, {portfolio_id}) up to its await
saveAnalysis(name, positions, analysisPeriodDays, htmlReport, portfolioId, from) ==
    /\ "analyses" \in mounted
    /\ Call("saveAnalysis", 0,
         [NoBody EXCEPT !.portfolio_name = name, !.positions = positions,
                        !.analysis_period_days = analysisPeriodDays,
                        !.html_report = htmlReport, !.portfolio_id = portfolioId],
         NoSnap, from)

\* saveAnalysis after its await, then handleSaveAnalysis's try/catch/finally.
saveAnalysisSettled(c, res) ==
    /\ c \in calls /\ c.op = "saveAnalysis"
    /\ calls' = calls \ {c}
    /\ analyses' = saveAnalysisPatch(res, analyses, [id |-> CreatedId(c.cid)])
    /\ total' = saveAnalysisTotal(res, total)
    /\ IF res.kind = "ok" THEN Return ELSE Throw(c, saveAnalysisError(res))
    /\ IF c.from = "handleSaveAnalysis"
       THEN /\ analysisSaved' = (IF res.kind = "ok" THEN TRUE ELSE analysisSaved)
            /\ analysisSaving' = FALSE
            /\ IF res.kind = "ok"
               THEN showToast("success", <<"Analysis saved to history!">>)
               ELSE showToast("error", <<"Failed to save analysis">>)
       ELSE UNCHANGED <<analysisSaved, analysisSaving, toastVars>>
    /\ UNCHANGED <<editorVars, running, runError, html, validityData, analyzeReqs,
                   selectedPortfolioId, saveModalOpen, modalSaving, historyVars, toolbarVars, uploadVars, formVars, reportVars,
                   portfolios, alerts, unreadCount, loading, error, mounted, nextCall>>

deleteAnalysis(id, from) ==
    /\ id \in Ids(analyses)
    /\ Call("deleteAnalysis", id, NoBody, NoSnap, from)

deleteAnalysisSettled(c, res) ==
    /\ c \in calls /\ c.op = "deleteAnalysis"
    /\ calls' = calls \ {c}
    /\ analyses' = deleteAnalysisPatch(res, analyses, c.id)
    /\ total' = deleteAnalysisTotal(res, total)
    /\ IF res.kind = "ok" THEN Return ELSE Throw(c, deleteAnalysisError(res))
    /\ deletingId' = (IF c.from = "HistoryPanel.handleDelete" THEN 0 ELSE deletingId)
    /\ UNCHANGED <<editorVars, runVars, saveVars, toastVars, toolbarVars, uploadVars, formVars, reportVars, loadingId, viewingHistoryHtml,
                   portfolios, alerts, unreadCount, loading, error, mounted, nextCall>>

getAnalysisError(res) == DetailOr(res, <<"Failed to fetch analysis">>)

\* Reports a stored analysis can carry (analysis.html_report).
Reports == {null, <<"<html>">>}

\* getAnalysis(id) up to its await
getAnalysis(id, from) ==
    /\ "analyses" \in mounted
    /\ Call("getAnalysis", id, NoBody, NoSnap, from)

\* getAnalysis after its await, then handleViewAnalysis and HistoryPanel.handleView's finally.
getAnalysisSettled(c, res, report) ==
    /\ c \in calls /\ c.op = "getAnalysis"
    /\ calls' = calls \ {c}
    /\ IF res.kind = "ok" THEN Return ELSE Throw(c, getAnalysisError(res))
    /\ viewingHistoryHtml' =
          (IF c.from = "HistoryPanel.handleView" /\ res.kind = "ok" /\ Truthy(report)
           THEN report ELSE viewingHistoryHtml)
    /\ loadingId' = (IF c.from = "HistoryPanel.handleView" THEN 0 ELSE loadingId)
    /\ UNCHANGED <<editorVars, runVars, saveVars, toastVars, toolbarVars, uploadVars, formVars, reportVars, deletingId, hookState,
                   loading, error, mounted, nextCall>>

\* ---- useAlerts

fetchAlerts ==
    /\ "alerts" \in mounted
    /\ Call("fetchAlerts", 0, NoBody, NoSnap, "hook")
    /\ loading' = [loading EXCEPT !.alerts = TRUE]
    /\ UNCHANGED <<appVars, hookState, error, thrown>>

\* setAlerts(data.alerts || []); setUnreadCount(data.unread_count || 0)
fetchAlertsSettled(c, res, data) ==
    /\ c \in calls /\ c.op = "fetchAlerts"
    /\ calls' = calls \ {c}
    /\ IF res.kind = "ok"
       THEN /\ alerts' = data
            /\ unreadCount' = Unread(data)
            /\ error' = [error EXCEPT !.alerts = null]
       ELSE /\ UNCHANGED <<alerts, unreadCount>>
            /\ error' = [error EXCEPT !.alerts =
                            FixedMessage(res, <<"Failed to fetch alerts">>)]
    /\ loading' = [loading EXCEPT !.alerts = FALSE]
    /\ UNCHANGED <<appVars, portfolios, analyses, total, mounted, nextCall, thrown, unhandled>>

Max0(n) == IF n < 0 THEN 0 ELSE n

\* Faulty variant: a patch that marks every alert.
markAsReadPatchAll(res, as, id) ==
    IF res.kind = "ok" THEN [k \in DOMAIN as |-> [as[k] EXCEPT !.is_read = TRUE]] ELSE as

\* setAlerts(prev => prev.map(a => a.id === id ? {...a, is_read: true} : a));
\* setUnreadCount(prev => Math.max(0, prev - 1))
markAsReadPatch(res, as, id) ==
    IF res.kind = "ok"
    THEN [k \in DOMAIN as |-> IF as[k].id = id THEN [as[k] EXCEPT !.is_read = TRUE] ELSE as[k]]
    ELSE as

markAsReadCount(res, n) == IF res.kind = "ok" THEN Max0(n - 1) ELSE n

\* setAlerts(prev => prev.map(a => ({...a, is_read: true}))); setUnreadCount(0)
markAllAsReadPatch(res, as) ==
    IF res.kind = "ok" THEN [k \in DOMAIN as |-> [as[k] EXCEPT !.is_read = TRUE]] ELSE as

markAllAsReadCount(res, n) == IF res.kind = "ok" THEN 0 ELSE n

\* const wasUnread = alerts.find(a => a.id === id)?.is_read === false, on the
\* alerts of the render that created the callback.
wasUnread(snap, id) == \E k \in DOMAIN snap : snap[k].id = id /\ ~snap[k].is_read

\* setAlerts(prev => prev.filter(a => a.id !== id));
\* if (wasUnread) setUnreadCount(prev => Math.max(0, prev - 1))
deleteAlertPatch(res, as, id) ==
    IF res.kind = "ok" THEN SelectSeq(as, LAMBDA a : a.id # id) ELSE as

deleteAlertCount(res, n, snap, id) ==
    IF res.kind = "ok" /\ wasUnread(snap, id) THEN Max0(n - 1) ELSE n

markAsRead(id) ==
    /\ id \in Ids(alerts)
    /\ Call("markAsRead", id, NoBody, NoSnap, "hook")

markAsReadSettled(c, res) ==
    /\ c \in calls /\ c.op = "markAsRead"
    /\ calls' = calls \ {c}
    /\ alerts' = markAsReadPatch(res, alerts, c.id)
    /\ unreadCount' = markAsReadCount(res, unreadCount)
    /\ IF res.kind = "ok" THEN Return ELSE Throw(c, markAsReadError(res))
    /\ UNCHANGED <<appVars, portfolios, analyses, total, loading, error, mounted, nextCall>>

markAllAsRead ==
    /\ "alerts" \in mounted
    /\ Call("markAllAsRead", 0, NoBody, NoSnap, "hook")

markAllAsReadSettled(c, res) ==
    /\ c \in calls /\ c.op = "markAllAsRead"
    /\ calls' = calls \ {c}
    /\ alerts' = markAllAsReadPatch(res, alerts)
    /\ unreadCount' = markAllAsReadCount(res, unreadCount)
    /\ IF res.kind = "ok" THEN Return ELSE Throw(c, markAllAsReadError(res))
    /\ UNCHANGED <<appVars, portfolios, analyses, total, loading, error, mounted, nextCall>>

deleteAlert(id) ==
    /\ id \in Ids(alerts)
    /\ Call("deleteAlert", id, NoBody, [NoSnap EXCEPT !.alerts = alerts], "hook")

deleteAlertSettled(c, res) ==
    /\ c \in calls /\ c.op = "deleteAlert"
    /\ calls' = calls \ {c}
    /\ alerts' = deleteAlertPatch(res, alerts, c.id)
    /\ unreadCount' = deleteAlertCount(res, unreadCount, c.snap.alerts, c.id)
    /\ IF res.kind = "ok" THEN Return ELSE Throw(c, deleteAlertError(res))
    /\ UNCHANGED <<appVars, portfolios, analyses, total, loading, error, mounted, nextCall>>

\* The hooks' functions, called by a component that uses the hooks.
HookOps ==
    \/ fetchPortfolios
    \/ fetchAnalyses
    \/ fetchAlerts
    \/ \E ps \in SavedPositions :
          /\ savePortfolio(ps, [type |-> "object", description |-> null], "hook")
          /\ UNCHANGED <<appVars, hookState, loading, error, thrown>>
    \/ \E id \in Ids(portfolios) :
          /\ deletePortfolio(id, "hook")
          /\ UNCHANGED <<appVars, hookState, loading, error, thrown>>
    \/ \E ps \in SavedPositions :
          /\ saveAnalysis(DefaultName, ps, DefaultDays, <<"<html>">>, 0, "hook")
          /\ UNCHANGED <<appVars, hookState, loading, error, thrown>>
    \/ \E id \in Ids(analyses) :
          /\ deleteAnalysis(id, "hook")
          /\ UNCHANGED <<appVars, hookState, loading, error, thrown>>
    \/ \E id \in Ids(alerts) :
          /\ markAsRead(id)
          /\ UNCHANGED <<appVars, hookState, loading, error, thrown>>
    \/ /\ markAllAsRead
       /\ UNCHANGED <<appVars, hookState, loading, error, thrown>>
    \/ \E id \in Ids(alerts) :
          /\ deleteAlert(id)
          /\ UNCHANGED <<appVars, hookState, loading, error, thrown>>

HookSettles ==
    \/ \E c \in calls, res \in HookResponses, data \in PortfolioLists :
          fetchPortfoliosSettled(c, res, data)
    \/ \E c \in calls, res \in HookResponses, data \in AnalysisLists :
          fetchAnalysesSettled(c, res, data)
    \/ \E c \in calls, res \in HookResponses, data \in AlertLists :
          fetchAlertsSettled(c, res, data)
    \/ \E c \in calls, res \in HookResponses : savePortfolioSettled(c, res)
    \/ \E c \in calls, res \in HookResponses : deletePortfolioSettled(c, res)
    \/ \E c \in calls, res \in HookResponses : saveAnalysisSettled(c, res)
    \/ \E c \in calls, res \in HookResponses : deleteAnalysisSettled(c, res)
    \/ \E c \in calls, res \in HookResponses : markAsReadSettled(c, res)
    \/ \E c \in calls, res \in HookResponses : markAllAsReadSettled(c, res)
    \/ \E c \in calls, res \in HookResponses : deleteAlertSettled(c, res)

\* ------------------------------------------------------ analysis settings

\* Portfolio Name input onChange: setPortfolioName(e.target.value)
setPortfolioName(name) ==
    /\ name # portfolioName
    /\ edits < MaxEdits
    /\ Gestures < MaxGestures
    /\ edits' = edits + 1
    /\ portfolioName' = name
    /\ UNCHANGED <<rows, nextUid, abortRefs, resolveReqs, nextReq, days, runVars, saveVars,
                   historyVars, toastVars, toolbarVars, uploadVars, reportVars, hookVars>>

\* Analysis Period select onChange: setDays(Number(e.target.value))
setDays(d) ==
    /\ d # days
    /\ edits < MaxEdits
    /\ Gestures < MaxGestures
    /\ edits' = edits + 1
    /\ days' = d
    /\ UNCHANGED <<rows, nextUid, abortRefs, resolveReqs, nextReq, portfolioName, runVars,
                   saveVars, historyVars, toastVars, toolbarVars, uploadVars, reportVars, hookVars>>

\* ------------------------------------------- AnalysisApp save handlers

\* PortfolioToolbar Save button: disabled={!canSave}, canSave = currentPositions.length > 0
OpenSaveModal ==
    /\ Len(currentPositions(rows)) > 0
    /\ ~saveModalOpen
    /\ saveModalOpen' = TRUE
    /\ UNCHANGED <<editorVars, runVars, selectedPortfolioId, modalSaving, analysisSaving,
                   historyVars, toastVars, toolbarVars, uploadVars, formVars, reportVars, hookVars>>

\* SavePortfolioModal Cancel button
CloseSaveModal ==
    /\ saveModalOpen
    /\ saveModalOpen' = FALSE
    /\ UNCHANGED <<editorVars, runVars, selectedPortfolioId, modalSaving, analysisSaving,
                   historyVars, toastVars, toolbarVars, uploadVars, formVars, reportVars, hookVars>>

\* Texts a user types as the portfolio's description.
Descriptions == {<<>>, <<"d">>}

\* SavePortfolioModal.handleSave -> handleSavePortfolio(name.trim(), description.trim())
\*   -> savePortfolio(name, currentPositions, description)
ModalSave(description) ==
    /\ saveModalOpen
    /\ ~modalSaving
    /\ modalSaving' = TRUE
    /\ savePortfolio(currentPositions(rows),
                     [type |-> "string", description |-> Trim(description)],
                     "handleSavePortfolio")
    /\ UNCHANGED <<editorVars, runVars, selectedPortfolioId, saveModalOpen, analysisSaving,
                   historyVars, toastVars, toolbarVars, uploadVars, formVars, reportVars, hookState, loading, error, thrown>>

\* SaveAnalysisCard button (rendered while html, disabled={saving || saved})
\*   -> handleSaveAnalysis
ClickSaveAnalysis ==
    /\ Truthy(html)
    /\ ~(analysisSaving \/ analysisSaved)
    /\ analysisSaving' = TRUE
    /\ saveAnalysis(portfolioName, currentPositions(rows), days, html, selectedPortfolioId,
                    "handleSaveAnalysis")
    /\ UNCHANGED <<editorVars, runVars, selectedPortfolioId, saveModalOpen, modalSaving,
                   historyVars, toastVars, toolbarVars, uploadVars, formVars, reportVars, hookState, loading, error, thrown>>

\* ------------------------------------------------ PortfolioToolbar handlers

\* Dropdown entry onClick: onLoad(p) = handleLoadPortfolio(p). Every position
\* becomes a resolved row with a fresh uid().
handleLoadPortfolio(p) ==
    /\ nextUid + Len(p.positions) <= MaxUid
    /\ selectedPortfolioId' = p.id
    /\ rows' = [k \in DOMAIN p.positions |->
                  [id |-> nextUid + k, query |-> p.positions[k].ticker,
                   resolvedSymbol |-> p.positions[k].ticker,
                   amount |-> p.positions[k].amount,
                   candidates |-> <<>>, loading |-> FALSE, error |-> null]]
    /\ nextUid' = nextUid + Len(p.positions)
    /\ portfolioName' = p.name
    /\ html' = <<>>
    /\ reportPayload' = NoPayload
    /\ analysisSaved' = FALSE
    /\ showToast("success", <<"Loaded">>)
    /\ UNCHANGED <<abortRefs, resolveReqs, nextReq, edits, running, runError, validityData,
                   analyzeReqs, saveModalOpen, modalSaving, analysisSaving, historyVars,
                   toolbarVars, uploadVars, days, hookVars>>

\* Dropdown entry's delete button (disabled={deletingId === p.id}) ->
\* PortfolioToolbar.handleDelete, the confirm dialog accepted
\*   -> onDelete = handleDeletePortfolio -> deletePortfolio
ClickDeletePortfolio(id) ==
    /\ toolbarDeletingId # id
    /\ toolbarDeletingId' = id
    /\ deletePortfolio(id, "handleDeletePortfolio")
    /\ UNCHANGED <<editorVars, runVars, saveVars, historyVars, uploadVars, formVars, reportVars, toastVars,
                   hookState, loading, error, thrown>>

\* ---------------------------------------------------- HistoryPanel handlers

\* The list of the history tab is rendered: no viewer open, the fetch done.
HistoryListShown == viewingHistoryHtml = null /\ ~loading.analyses

\* View button (disabled={loadingId === analysis.id}) -> HistoryPanel.handleView
\*   -> handleViewAnalysis -> getAnalysis
ClickViewAnalysis(id) ==
    /\ HistoryListShown
    /\ id \in Ids(analyses)
    /\ loadingId # id
    /\ loadingId' = id
    /\ getAnalysis(id, "HistoryPanel.handleView")
    /\ UNCHANGED <<editorVars, runVars, saveVars, toastVars, toolbarVars, uploadVars, formVars, reportVars, deletingId, viewingHistoryHtml,
                   hookState, loading, error, thrown>>

\* Delete button (disabled={deletingId === analysis.id}) -> HistoryPanel.handleDelete,
\* the confirm dialog accepted -> onDelete = deleteAnalysis
ClickDeleteAnalysis(id) ==
    /\ HistoryListShown
    /\ deletingId # id
    /\ deletingId' = id
    /\ deleteAnalysis(id, "HistoryPanel.handleDelete")
    /\ UNCHANGED <<editorVars, runVars, saveVars, toastVars, toolbarVars, uploadVars, formVars, reportVars, loadingId, viewingHistoryHtml,
                   hookState, loading, error, thrown>>

\* onCloseViewer={() => setViewingHistoryHtml(null)}
CloseViewer ==
    /\ viewingHistoryHtml # null
    /\ viewingHistoryHtml' = null
    /\ UNCHANGED <<editorVars, runVars, saveVars, toastVars, toolbarVars, uploadVars, formVars, reportVars, deletingId, loadingId, hookVars>>

\* ------------------------------------------------------- UploadDataPanel

\* Files a user selects or drops.
Files == {<<"A.csv">>, <<"B.csv">>}

\* The series the validation endpoint finds in a file (names are distinct).
SeriesOf(f) == IF f = <<"A.csv">> THEN <<"a1", "a2">> ELSE <<"b1">>

\* validation === null; otherwise set, with result.valid and result.data.series
\* (series is null when result.data is null).
NoValidation == [set |-> FALSE, valid |-> FALSE, series |-> null]

\* Bodies POST /validate/upload can answer for a file.
ValidationResults(f) ==
    {[set |-> TRUE, valid |-> TRUE, series |-> SeriesOf(f)],
     [set |-> TRUE, valid |-> TRUE, series |-> <<>>],
     [set |-> TRUE, valid |-> FALSE, series |-> null]}

\* Values a user types in a weight input: parseFloat(e.target.value) || 0
WeightInputs == {0, 2}

MsgIncludeSeries == <<"Please include at least one series">>

\* handleFileSelect up to its await (file input onChange and drop zone onDrop,
\* both rendered while no result is shown).
handleFileSelect(f) ==
    /\ ~Truthy(htmlResult)
    /\ nextSelect < MaxSelect
    /\ Gestures < MaxGestures
    /\ nextSelect' = nextSelect + 1
    /\ file' = f
    /\ validation' = NoValidation
    /\ seriesWeights' = <<>>
    /\ uploadError' = null
    /\ htmlResult' = null
    /\ dataDeleted' = FALSE
    /\ isValidating' = TRUE
    /\ validateReqs' = validateReqs \cup {[rid |-> nextSelect + 1, file |-> f]}
    /\ UNCHANGED <<isAnalyzing, customReqs, nextRun, editorVars, runVars, saveVars,
                   historyVars, toastVars, toolbarVars, formVars, reportVars, hookVars>>

\* result.data.series.map(name => ({name, weight: 1.0, include: true}))
InitialWeights(series) ==
    [k \in DOMAIN series |-> [name |-> series[k], weight |-> 1, include |-> TRUE]]

\* handleFileSelect after its await, the response ok and parsed.
ValidateOk(q, result) ==
    /\ q \in validateReqs
    /\ result \in ValidationResults(q.file)
    /\ validateReqs' = validateReqs \ {q}
    /\ validation' = result
    /\ seriesWeights' =
          (IF result.valid /\ result.series # null /\ Len(result.series) > 0
           THEN InitialWeights(result.series) ELSE seriesWeights)
    /\ isValidating' = FALSE
    /\ UNCHANGED <<file, uploadError, htmlResult, dataDeleted, isAnalyzing, customReqs,
                   nextSelect, nextRun, editorVars, runVars, saveVars, historyVars, toastVars,
                   toolbarVars, formVars, reportVars, hookVars>>

\* handleFileSelect after its await, the response not ok or the fetch rejected:
\* setError(e.message || 'Failed to validate file')
ValidateFailed(q, message) ==
    /\ q \in validateReqs
    /\ validateReqs' = validateReqs \ {q}
    /\ uploadError' = (IF Truthy(message) THEN message ELSE <<"Failed to validate file">>)
    /\ isValidating' = FALSE
    /\ UNCHANGED <<file, validation, seriesWeights, htmlResult, dataDeleted, isAnalyzing,
                   customReqs, nextSelect, nextRun, editorVars, runVars, saveVars, historyVars,
                   toastVars, toolbarVars, formVars, reportVars, hookVars>>

ValidateFailures == {<<"Validation failed: ", "Bad Request">>, <<"Failed to fetch">>, <<>>}

\* The data summary, the weights table and the run button are rendered.
WeightsShown == validation.set /\ validation.valid /\ validation.series # null
                /\ ~Truthy(htmlResult)

\* weight input onChange (disabled={!series.include}): updateWeight(index, weight)
updateWeight(index, weight) ==
    /\ WeightsShown
    /\ index \in DOMAIN seriesWeights
    /\ seriesWeights[index].include
    /\ weight # seriesWeights[index].weight
    /\ edits < MaxEdits
    /\ Gestures < MaxGestures
    /\ edits' = edits + 1
    /\ seriesWeights' = [seriesWeights EXCEPT ![index].weight = weight]
    /\ UNCHANGED <<file, validation, uploadError, htmlResult, dataDeleted, isValidating,
                   isAnalyzing, validateReqs, customReqs, nextSelect, nextRun,
                   rows, nextUid, abortRefs, resolveReqs, nextReq,
                   runVars, saveVars, historyVars, toastVars, toolbarVars, formVars, reportVars, hookVars>>

\* include checkbox onChange: toggleInclude(index)
toggleInclude(index) ==
    /\ WeightsShown
    /\ index \in DOMAIN seriesWeights
    /\ edits < MaxEdits
    /\ Gestures < MaxGestures
    /\ edits' = edits + 1
    /\ seriesWeights' = [seriesWeights EXCEPT ![index].include = ~seriesWeights[index].include]
    /\ UNCHANGED <<file, validation, uploadError, htmlResult, dataDeleted, isValidating,
                   isAnalyzing, validateReqs, customReqs, nextSelect, nextRun,
                   rows, nextUid, abortRefs, resolveReqs, nextReq,
                   runVars, saveVars, historyVars, toastVars, toolbarVars, formVars, reportVars, hookVars>>

\* seriesWeights.filter(s => s.include)
activeWeights(sw) == SelectSeq(sw, LAMBDA w : w.include)

\* Faulty variant: the weight map of every series, included or not.
WeightMapOfAll(sw) ==
    [n \in {sw[k].name : k \in DOMAIN sw} |->
        sw[CHOOSE k \in DOMAIN sw :
              sw[k].name = n /\ \A j \in DOMAIN sw : sw[j].name = n => j <= k].weight]

\* Object.fromEntries(activeWeights.map(s => [s.name, s.weight])): the last
\* entry of a name gives its value.
WeightMap(sw) ==
    LET act == activeWeights(sw)
    IN [n \in {act[k].name : k \in DOMAIN act} |->
          act[CHOOSE k \in DOMAIN act :
                 act[k].name = n /\ \A j \in DOMAIN act : act[j].name = n => j <= k].weight]

\* The panel's runAnalysis up to its await of POST /analyze/custom. The context,
\* memo flag and analysis name fields of the form are sent as they are.
uploadRunAnalysis ==
    IF file = null \/ ~(validation.set /\ validation.valid)
    THEN UNCHANGED <<uploadError, dataDeleted, isAnalyzing, customReqs, nextRun>>
    ELSE IF Len(activeWeights(seriesWeights)) = 0
    THEN /\ uploadError' = MsgIncludeSeries
         /\ UNCHANGED <<dataDeleted, isAnalyzing, customReqs, nextRun>>
    ELSE /\ nextRun' = nextRun + 1
         /\ isAnalyzing' = TRUE
         /\ uploadError' = null
         /\ dataDeleted' = FALSE
         /\ customReqs' = Append(customReqs, [file |-> file, weights |-> WeightMap(seriesWeights)])

\* Run button onClick (disabled={isAnalyzing || no series included})
ClickUploadRun ==
    /\ WeightsShown
    /\ ~(isAnalyzing \/ Len(activeWeights(seriesWeights)) = 0)
    /\ nextRun < MaxRuns
    /\ Gestures < MaxGestures
    /\ uploadRunAnalysis
    /\ UNCHANGED <<file, validation, seriesWeights, htmlResult, isValidating, validateReqs,
                   nextSelect, editorVars, runVars, saveVars, historyVars, toastVars,
                   toolbarVars, formVars, reportVars, hookVars>>

\* The panel's runAnalysis called whatever the panel shows (at most MaxOutstanding
\* awaited at once).
CallUploadRun ==
    /\ Len(customReqs) < MaxOutstanding
    /\ nextRun < MaxRuns
    /\ Gestures < MaxGestures
    /\ uploadRunAnalysis
    /\ UNCHANGED <<file, validation, seriesWeights, htmlResult, isValidating, validateReqs,
                   nextSelect, editorVars, runVars, saveVars, historyVars, toastVars,
                   toolbarVars, formVars, reportVars, hookVars>>

\* Outcomes of POST /analyze/custom: the report text, or the message of the failure
\* (errorData.detail, res.statusText when the body is not JSON, the fetch error's).
CustomResponses ==
    [ok : {TRUE}, text : {<<>>, <<"<html>">>}]
    \cup [ok : {FALSE}, text : {<<>>, <<"detail from the server">>, <<"Failed to fetch">>}]

\* The panel's runAnalysis after its await: try body, catch, finally.
\* onAnalysisComplete is AnalysisApp's showToast('success', 'Analysis complete!').
CustomSettled(k, res) ==
    /\ k \in DOMAIN customReqs
    /\ customReqs' = [j \in 1..(Len(customReqs) - 1) |->
                        IF j < k THEN customReqs[j] ELSE customReqs[j + 1]]
    /\ IF res.ok
       THEN /\ htmlResult' = res.text
            /\ dataDeleted' = TRUE
            /\ showToast("success", <<"Analysis complete!">>)
            /\ uploadError' = uploadError
       ELSE /\ uploadError' = (IF Truthy(res.text) THEN res.text ELSE <<"Analysis failed">>)
            /\ UNCHANGED <<htmlResult, dataDeleted, toastVars>>
    /\ isAnalyzing' = FALSE
    /\ UNCHANGED <<file, validation, seriesWeights, isValidating, validateReqs, nextSelect, nextRun,
                   editorVars, runVars, saveVars, historyVars, toolbarVars, formVars, reportVars, hookVars>>

\* "New Analysis" button of the result view: resetForm
resetForm ==
    /\ Truthy(htmlResult)
    /\ file' = null
    /\ validation' = NoValidation
    /\ seriesWeights' = <<>>
    /\ uploadError' = null
    /\ htmlResult' = null
    /\ dataDeleted' = FALSE
    /\ UNCHANGED <<isValidating, isAnalyzing, validateReqs, customReqs, nextSelect, nextRun,
                   editorVars, runVars, saveVars, historyVars, toastVars, toolbarVars, formVars, reportVars, hookVars>>

\* ------------------------------------------------------------------- spec

\* useEffect(() => { fetch...() }, [fetch...]) of each hook, run after the first render.
Hooks == {"portfolios", "analyses", "alerts"}

MountFetch(h) ==
    [cid |-> CASE h = "portfolios" -> 1 [] h = "analyses" -> 2 [] h = "alerts" -> 3,
     op |-> CASE h = "portfolios" -> "fetchPortfolios" [] h = "analyses" -> "fetchAnalyses"
              [] h = "alerts" -> "fetchAlerts",
     id |-> 0, body |-> NoBody, snap |-> NoSnap, from |-> "hook"]

\* AnalysisApp's own state after construction.
InitApp ==
    /\ rows = <<NewRow(1, DefaultLong), NewRow(2, DefaultShort)>>
    /\ nextUid = 2
    /\ abortRefs = [id \in RowIds |-> 0]
    /\ resolveReqs = {}
    /\ nextReq = 0
    /\ edits = 0
    /\ running = FALSE
    /\ runError = null
    /\ html = <<>>
    /\ validityData = null
    /\ analysisSaved = FALSE
    /\ analyzeReqs = <<>>
    /\ selectedPortfolioId = 0
    /\ saveModalOpen = FALSE
    /\ modalSaving = FALSE
    /\ analysisSaving = FALSE
    /\ deletingId = 0
    /\ loadingId = 0
    /\ viewingHistoryHtml = null
    /\ unhandled = null
    /\ toasts = <<>>
    /\ timers = {}
    /\ nextToast = 0
    /\ toolbarDeletingId = 0
    /\ file = null
    /\ validation = NoValidation
    /\ seriesWeights = <<>>
    /\ uploadError = null
    /\ htmlResult = null
    /\ dataDeleted = FALSE
    /\ isValidating = FALSE
    /\ isAnalyzing = FALSE
    /\ validateReqs = {}
    /\ customReqs = <<>>
    /\ nextSelect = 0
    /\ nextRun = 0
    /\ portfolioName = DefaultName
    /\ days = DefaultDays
    /\ reportPayload = NoPayload

\* AnalysisApp after construction, its three hooks mounted.
Init ==
    /\ InitApp
    /\ portfolios = <<>>
    /\ analyses = <<>>
    /\ total = 0
    /\ alerts = <<>>
    /\ unreadCount = 0
    /\ loading = [portfolios |-> TRUE, analyses |-> TRUE, alerts |-> TRUE]
    /\ error = [portfolios |-> null, analyses |-> null, alerts |-> null]
    /\ mounted = Hooks
    /\ calls = {MountFetch(h) : h \in Hooks}
    /\ nextCall = 0
    /\ thrown = noError

\* A component that uses one of the hooks alone.
InitHooks ==
    /\ InitApp
    /\ loading = [portfolios |-> TRUE, analyses |-> TRUE, alerts |-> TRUE]
    /\ error = [portfolios |-> null, analyses |-> null, alerts |-> null]
    /\ portfolios = <<>>
    /\ analyses = <<>>
    /\ total = 0
    /\ alerts = <<>>
    /\ unreadCount = 0
    /\ \E h \in Hooks : mounted = {h} /\ calls = {MountFetch(h)}
    /\ nextCall = 0
    /\ thrown = noError

\* Ticker inputs, candidate lists and the /resolve requests behind them.
Resolution ==
    \/ \E i \in DOMAIN rows, val \in TypedQueries : EditQuery(i, val)
    \/ \E i \in DOMAIN rows, k \in 1..2 : SelectCandidate(i, k)
    \/ \E i \in DOMAIN rows : resolveRow(i)
    \/ \E q \in resolveReqs : ResolveAborted(q)
    \/ \E q \in resolveReqs, msg \in RejectMessages : ResolveRejected(q, msg)
    \/ \E q \in resolveReqs : ResolveNotOk(q)
    \/ \E q \in resolveReqs, data \in ResolveResponses : ResolveData(q, data)

AnalyzeResponds ==
    \E k \in 1..MaxOutstanding, res \in AnalyzeResponses : AnalyzeSettled(k, res)

\* The position editor's ticker resolution, rows added and removed.
NextResolve ==
    \/ Resolution
    \/ addRow
    \/ \E i \in DOMAIN rows : removeRow(i)

SpecResolve == Init /\ [][NextResolve]_vars

\* The editor and the submission, as a user drives them.
Next ==
    \/ Resolution
    \/ \E i \in DOMAIN rows, a \in AmountInputs : EditAmount(i, a)
    \/ ClickRunAnalysis
    \/ AnalyzeResponds

Spec == Init /\ [][Next]_vars

\* The save flows: the toolbar's modal and the analysis card.
SaveFlows ==
    \/ OpenSaveModal
    \/ CloseSaveModal
    \/ \E d \in Descriptions : ModalSave(d)
    \/ ClickSaveAnalysis
    \/ \E c \in calls, res \in HookResponses : savePortfolioSettled(c, res)
    \/ \E c \in calls, res \in HookResponses : saveAnalysisSettled(c, res)

\* The portfolio name and the analysis period of the configuration card.
Settings ==
    \/ \E name \in TypedNames : setPortfolioName(name)
    \/ \E d \in PeriodOptions : setDays(d)

\* The editor, the submission and the save flows, as a user drives them.
NextSave == Next \/ Settings \/ SaveFlows

SpecSave == Init /\ [][NextSave]_vars

\* A saved portfolio loaded, analysed and its report saved to history.
NextReport ==
    \/ \E c \in calls, res \in HookResponses, data \in PortfolioLists :
          fetchPortfoliosSettled(c, res, data)
    \/ \E k \in DOMAIN portfolios : handleLoadPortfolio(portfolios[k])
    \/ \E i \in DOMAIN rows, a \in AmountInputs : EditAmount(i, a)
    \/ Settings
    \/ ClickRunAnalysis
    \/ AnalyzeResponds
    \/ ClickSaveAnalysis
    \/ \E c \in calls, res \in HookResponses : saveAnalysisSettled(c, res)

SpecReport == Init /\ [][NextReport]_vars

\* runAnalysis as a function: called in any state of the editor.
NextCall ==
    \/ Resolution
    \/ \E i \in DOMAIN rows, a \in AmountInputs : EditAmount(i, a)
    \/ CallRunAnalysis
    \/ AnalyzeResponds

SpecCall == Init /\ [][NextCall]_vars

\* The mount fetches of the three hooks complete.
MountSettles ==
    \/ \E c \in calls, res \in HookResponses, data \in PortfolioLists :
          fetchPortfoliosSettled(c, res, data)
    \/ \E c \in calls, res \in HookResponses, data \in AnalysisLists :
          fetchAnalysesSettled(c, res, data)
    \/ \E c \in calls, res \in HookResponses, data \in AlertLists :
          fetchAlertsSettled(c, res, data)

\* The history tab: view and delete saved analyses.
NextHistory ==
    \/ MountSettles
    \/ \E id \in Ids(analyses) : ClickViewAnalysis(id)
    \/ \E id \in Ids(analyses) : ClickDeleteAnalysis(id)
    \/ CloseViewer
    \/ \E c \in calls, res \in HookResponses, report \in Reports :
          getAnalysisSettled(c, res, report)
    \/ \E c \in calls, res \in HookResponses : deleteAnalysisSettled(c, res)

SpecHistory == Init /\ [][NextHistory]_vars

\* The portfolio toolbar, the save modal and the toasts they show.
NextToolbar ==
    \/ \E c \in calls, res \in HookResponses, data \in PortfolioLists :
          fetchPortfoliosSettled(c, res, data)
    \/ \E k \in DOMAIN portfolios : handleLoadPortfolio(portfolios[k])
    \/ \E id \in Ids(portfolios) : ClickDeletePortfolio(id)
    \/ \E c \in calls, res \in HookResponses : deletePortfolioSettled(c, res)
    \/ OpenSaveModal
    \/ CloseSaveModal
    \/ \E d \in Descriptions : ModalSave(d)
    \/ \E c \in calls, res \in HookResponses : savePortfolioSettled(c, res)
    \/ \E id \in timers : ToastExpires(id)
    \/ \E id \in 1..nextToast : dismissToast(id)

SpecToolbar == Init /\ [][NextToolbar]_vars

UploadEdits ==
    \/ \E f \in Files : handleFileSelect(f)
    \/ \E q \in validateReqs : \E result \in ValidationResults(q.file) : ValidateOk(q, result)
    \/ \E q \in validateReqs, message \in ValidateFailures : ValidateFailed(q, message)
    \/ \E index \in DOMAIN seriesWeights, weight \in WeightInputs : updateWeight(index, weight)
    \/ \E index \in DOMAIN seriesWeights : toggleInclude(index)
    \/ \E k \in 1..MaxOutstanding, res \in CustomResponses : CustomSettled(k, res)
    \/ resetForm

\* The upload panel, as a user drives it.
NextUpload == UploadEdits \/ ClickUploadRun

SpecUpload == Init /\ [][NextUpload]_vars

\* The upload panel, its runAnalysis called as a function in any state.
NextUploadCall == UploadEdits \/ CallUploadRun

SpecUploadCall == Init /\ [][NextUploadCall]_vars

\* The three data hooks alone.
NextHooks == HookOps \/ HookSettles

SpecHooks == InitHooks /\ [][NextHooks]_vars

\* ------------------------------------------------------------------ claims

\* C1: when resolveRow runs for a row whose earlier request is still awaited,
\* the earlier request is cancelled: whenever it settles, as a response or as a
\* failure, no field of any row changes and no error message is set.  Only the
\* request the row's controller still belongs to applies its outcome.
C1_SupersededRequestChangesNothing ==
    [][\A q \in resolveReqs :
          (q \notin resolveReqs' /\ abortRefs[q.row] # q.rid) => rows' = rows]_vars

\* C1 witness: the later request of a row has applied its result while the
\* earlier, cancelled request of the same row has not settled yet.
C1_Witness ==
    \E q \in resolveReqs : \E i \in DOMAIN rows :
        /\ q.aborted
        /\ abortRefs[q.row] # q.rid
        /\ rows[i].id = q.row
        /\ Truthy(rows[i].resolvedSymbol)
        /\ ~rows[i].loading

\* C2: in every reachable state each row has at most one resolution request
\* that is outstanding and not cancelled.
C2_OneLiveRequestPerRow ==
    \A id \in RowIds :
        Cardinality({q \in resolveReqs : q.row = id /\ ~q.aborted}) <= 1

\* C2 witness: a row with two outstanding requests, the earlier one cancelled.
C2_Witness ==
    \E q1 \in resolveReqs, q2 \in resolveReqs :
        /\ q1.row = q2.row
        /\ q1.rid < q2.rid
        /\ q1.aborted
        /\ ~q2.aborted

\* C3 (as claimed): clearing a row's query (resolveRow on the empty text)
\* yields the unresolved row without candidates and without error and issues
\* no request, whatever the row's state was, a request in flight included:
\* the handler leaves the row so, and the row stays so until its query is
\* edited again.
C3_ClearingResetsRow ==
    [][LET Cleared(r) == /\ r.resolvedSymbol = null
                         /\ r.candidates = <<>>
                         /\ r.error = null
                         /\ ~r.loading
       IN \A i \in DOMAIN rows :
             /\ ResolveRowEmpty(i) => Cleared(rows'[i]) /\ resolveReqs' = resolveReqs
             /\ ( /\ Trim(rows[i].query) = <<>>
                  /\ Cleared(rows[i])
                  /\ i \in DOMAIN rows'
                  /\ rows'[i].id = rows[i].id
                  /\ rows'[i].query = rows[i].query )
                => Cleared(rows'[i])]_vars

\* C4 (as claimed): whenever runAnalysis is invoked while some row has a
\* nonzero amount and no resolved symbol, the submission is rejected with the
\* missing-ticker message and no request is sent.
C4_BadRowRejectedWithMissingTicker ==
    [][(runAnalysis /\ HasBadRow(rows)) =>
          (runError' = MsgMissingTicker /\ analyzeReqs' = analyzeReqs /\ ~running')]_vars

\* C5: whenever runAnalysis is invoked while no row has both a resolved symbol
\* and a nonzero amount, the submission is rejected with the no-positions
\* message and no request is sent.
C5_NoPositionsRejected ==
    [][(runAnalysis /\ ~hasPositions) =>
          (runError' = MsgNoPositions /\ analyzeReqs' = analyzeReqs /\ running' = running)]_vars

\* C5 witness: runAnalysis has rejected an editor whose only resolved row has
\* amount 0 (the position {AAPL, amount 0}).
C5_Witness ==
    /\ runError = MsgNoPositions
    /\ analyzeReqs = <<>>
    /\ \E i \in DOMAIN rows : Truthy(rows[i].resolvedSymbol) /\ rows[i].amount = 0

\* C6: every position sent to the server, in POST /analyze, in a portfolio save
\* and in an analysis save, carries the resolved symbol and the amount of a row
\* that is resolved and has a nonzero amount when the request is sent.
C6_SentPositionsAreResolvedRows ==
    [][LET FromRows(ps) ==
              \A k \in DOMAIN ps : \E i \in DOMAIN rows :
                  /\ Truthy(rows[i].resolvedSymbol)
                  /\ rows[i].amount # 0
                  /\ ps[k].ticker = rows[i].resolvedSymbol
                  /\ ps[k].amount = rows[i].amount
       IN /\ Len(analyzeReqs') > Len(analyzeReqs) =>
                FromRows(analyzeReqs'[Len(analyzeReqs')].positions)
          /\ \A c \in calls' \ calls :
                c.op \in {"savePortfolio", "saveAnalysis"} => FromRows(c.body.positions)]_vars

\* C6 witness: a portfolio save is on its way with the one resolved row while
\* another row holds a typed query, a nonzero amount and no resolved symbol.
C6_Witness ==
    \E c \in calls : \E i \in DOMAIN rows :
        /\ c.op = "savePortfolio"
        /\ Len(c.body.positions) = 1
        /\ Truthy(rows[i].query)
        /\ ~Truthy(rows[i].resolvedSymbol)
        /\ rows[i].amount # 0

\* C7: at any time at most one POST /analyze issued by runAnalysis is
\* outstanding, and running is true while it is.
C7_OneRunOutstanding ==
    /\ Len(analyzeReqs) <= 1
    /\ Len(analyzeReqs) = 1 => running

\* C7 witness: a run is outstanding in an editor whose rows would otherwise
\* enable the Run Analysis button.
C7_Witness ==
    /\ Len(analyzeReqs) = 1
    /\ running
    /\ allResolved
    /\ hasPositions

\* C8: when POST /analyze is answered 401 the session-expiry message is shown,
\* when 429 the rate-limit message, on any other non-success status the generic
\* failure message with the response body, or with the HTTP status when the
\* body is empty; no report is stored and running is false again.
C8_FailedSubmissionMessages ==
    [][\A k \in DOMAIN analyzeReqs, res \in AnalyzeResponses :
          (AnalyzeSettled(k, res) /\ res.status # 0 /\ ~ResOk(res)) =>
              /\ runError' =
                   (CASE res.status = 401 -> <<"Session expired. Please refresh.">>
                      [] res.status = 429 -> <<"Rate limit exceeded. Please wait.">>
                      [] OTHER -> IF res.text # <<>>
                                  THEN <<"Analysis failed: ">> \o res.text
                                  ELSE <<"Analysis failed: ", "HTTP ", ToString(res.status)>>)
              /\ html' = <<>>
              /\ validityData' = null
              /\ ~running']_vars

\* C8 witness: a submission was answered 429 and the editor is idle again.
C8_Witness ==
    /\ runError = MsgRateLimit
    /\ ~running
    /\ analyzeReqs = <<>>
    /\ html = <<>>

\* C9: when the remote call of a hook mutator fails (a non-success response or
\* a rejected fetch), the hooks' item lists, total and unreadCount are what
\* they were before the call settled.
C9_FailedMutatorLeavesState ==
    [][\A c \in calls, res \in HookResponses :
          ( /\ res.kind # "ok"
            /\ \/ savePortfolioSettled(c, res)
               \/ deletePortfolioSettled(c, res)
               \/ saveAnalysisSettled(c, res)
               \/ deleteAnalysisSettled(c, res)
               \/ markAsReadSettled(c, res)
               \/ markAllAsReadSettled(c, res)
               \/ deleteAlertSettled(c, res) )
          => UNCHANGED hookState]_vars

\* C9 witness: deleteAnalysis has failed on a list that holds the analysis.
C9_Witness ==
    /\ thrown.op = "deleteAnalysis"
    /\ total > 0
    /\ Len(analyses) = total

\* C10 (as claimed): for every mutator of the three hooks, when the server
\* answers non-success with a body that carries a detail, the error the mutator
\* throws carries that detail.
C10_MutatorsSurfaceDetail ==
    [][\A c \in calls, res \in HookResponses :
          ( /\ res.kind = "http"
            /\ Truthy(res.detail)
            /\ \/ savePortfolioSettled(c, res)
               \/ deletePortfolioSettled(c, res)
               \/ saveAnalysisSettled(c, res)
               \/ deleteAnalysisSettled(c, res)
               \/ markAsReadSettled(c, res)
               \/ markAllAsReadSettled(c, res)
               \/ deleteAlertSettled(c, res) )
          => thrown'.message = res.detail]_vars

\* C11: a hook mutator changes the hooks' local state only in the step in which
\* its own remote call returns, and only when it returned success; it issues
\* no refetch.  The change is exactly: a save prepends the returned item and
\* keeps the others in order, a delete removes the items with that id and
\* keeps the others in order, markAsRead sets is_read on that alert only.
C11_PatchOnlyAfterSuccess ==
    [][/\ \A c \in calls' \ calls : UNCHANGED hookState
       /\ hookState' # hookState => \E c \in calls : calls' = calls \ {c}
       /\ \A c \in calls, res \in HookResponses :
            /\ (res.kind = "ok" /\ savePortfolioSettled(c, res)) =>
                  /\ Len(portfolios') = Len(portfolios) + 1
                  /\ Tail(portfolios') = portfolios
                  /\ portfolios'[1].id = CreatedId(c.cid)
                  /\ UNCHANGED <<analyses, total, alerts, unreadCount>>
            /\ (res.kind = "ok" /\ saveAnalysisSettled(c, res)) =>
                  /\ Len(analyses') = Len(analyses) + 1
                  /\ Tail(analyses') = analyses
                  /\ analyses'[1].id = CreatedId(c.cid)
                  /\ UNCHANGED <<portfolios, alerts, unreadCount>>
            /\ (res.kind = "ok" /\ deletePortfolioSettled(c, res)) =>
                  /\ portfolios' = SelectSeq(portfolios, LAMBDA p : p.id # c.id)
                  /\ UNCHANGED <<analyses, total, alerts, unreadCount>>
            /\ (res.kind = "ok" /\ deleteAnalysisSettled(c, res)) =>
                  /\ analyses' = SelectSeq(analyses, LAMBDA a : a.id # c.id)
                  /\ UNCHANGED <<portfolios, alerts, unreadCount>>
            /\ (res.kind = "ok" /\ deleteAlertSettled(c, res)) =>
                  /\ alerts' = SelectSeq(alerts, LAMBDA a : a.id # c.id)
                  /\ UNCHANGED <<portfolios, analyses, total>>
            /\ (res.kind = "ok" /\ markAsReadSettled(c, res)) =>
                  /\ Len(alerts') = Len(alerts)
                  /\ \A k \in DOMAIN alerts :
                        /\ alerts'[k].id = alerts[k].id
                        /\ alerts'[k].is_read = (alerts[k].is_read \/ alerts[k].id = c.id)
                  /\ UNCHANGED <<portfolios, analyses, total>>]_vars

\* C11 witness: markAsRead of the first of two unread alerts has succeeded and
\* the second alert is still unread.
C11_Witness ==
    /\ Len(alerts) = 2
    /\ alerts[1].is_read
    /\ ~alerts[2].is_read
    /\ calls = {}

\* C12 (as claimed): a successful markAsRead decrements unreadCount by exactly
\* 1 when the alert is unread in the local list, and leaves it unchanged when
\* the alert is already read (a second markAsRead of the same alert included);
\* unreadCount never becomes negative.
C12_MarkAsReadIdempotent ==
    [][\A c \in calls, res \in HookResponses :
          (res.kind = "ok" /\ markAsReadSettled(c, res)) =>
              /\ unreadCount' =
                    (IF \E k \in DOMAIN alerts : alerts[k].id = c.id /\ ~alerts[k].is_read
                     THEN unreadCount - 1
                     ELSE unreadCount)
              /\ unreadCount' >= 0]_vars

\* C13: a successful deleteAnalysis(id) removes from the list exactly the
\* analyses with that id, keeps the others in order, and lowers total by
\* exactly 1, whatever fetches, saves and deletes came before.
C13_DeleteAnalysisExact ==
    [][\A c \in calls, res \in HookResponses :
          (res.kind = "ok" /\ deleteAnalysisSettled(c, res)) =>
              /\ \A k \in DOMAIN analyses' : analyses'[k].id # c.id
              /\ analyses' = SelectSeq(analyses, LAMBDA a : a.id # c.id)
              /\ total' = total - 1]_vars

\* C13 witness: the older of two fetched analyses has been deleted.
C13_Witness ==
    /\ analyses = <<[id |-> 2]>>
    /\ total = 1
    /\ calls = {}

\* C14 (as claimed): every failure of a remote call is caught at its call site
\* and shown as a message or a toast: no rejection leaves a UI event handler
\* uncaught.
C14_NoUncaughtFailure == unhandled = null

\* C15: in every state gross is the sum of the absolute amounts, net the signed
\* sum, long the sum of the positive amounts and short the sum of the absolute
\* negative amounts, so gross = long + short and net = long - short whatever the
\* rows' resolution state; the two initial rows give 2,000,000 / 0 / 1,000,000 /
\* 1,000,000.
C15_ExposureIdentities ==
    /\ gross(rows) = longExposure(rows) + shortExposure(rows)
    /\ net(rows) = longExposure(rows) - shortExposure(rows)
    /\ shortExposure(rows) >= 0
    /\ [k \in DOMAIN rows |-> rows[k].amount] = <<DefaultLong, DefaultShort>> =>
          /\ gross(rows) = 2000000
          /\ net(rows) = 0
          /\ longExposure(rows) = 1000000
          /\ shortExposure(rows) = 1000000

C15_Witness ==
    /\ Len(rows) = 2
    /\ Truthy(rows[1].resolvedSymbol)
    /\ rows[1].amount = 100
    /\ rows[2].amount = DefaultShort
    /\ gross(rows) = 1000100
    /\ net(rows) = -999900

\* C16 (as claimed): once a row's text is edited the row is unresolved, without
\* candidates and without error until a lookup issued after the edit completes
\* or a candidate is chosen: the response to a lookup issued for an earlier
\* text of the row is never applied, so a response only ever resolves a row
\* from its current query text.
C16_StaleResponseNeverApplied ==
    [][\A q \in resolveReqs, i \in DOMAIN rows :
          (/\ rows[i].id = q.row
           /\ q.query # Trim(rows[i].query)
           /\ \/ \E data \in ResolveResponses : ResolveData(q, data)
              \/ \E msg \in RejectMessages : ResolveRejected(q, msg)
              \/ ResolveNotOk(q)) =>
              /\ rows'[i].resolvedSymbol = rows[i].resolvedSymbol
              /\ rows'[i].candidates = rows[i].candidates
              /\ rows'[i].error = rows[i].error]_vars

\* C17 (as claimed): a lookup that fails for a reason other than cancellation
\* leaves its row with an error, not loading and unresolved; in every reachable
\* state a row that shows an error has no resolved symbol.
C17_ErrorRowIsUnresolved ==
    \A i \in DOMAIN rows : Truthy(rows[i].error) => ~Truthy(rows[i].resolvedSymbol)

\* C18 (as claimed): a resolved row, whether resolved by an auto-selected
\* response or by a click on a candidate, has an empty candidate list for as
\* long as it is resolved; a response without auto-selection fills the
\* candidates of an unresolved row only.
C18_ResolvedRowHasNoCandidates ==
    \A i \in DOMAIN rows : Truthy(rows[i].resolvedSymbol) => rows[i].candidates = <<>>

\* C19 (as claimed): a successful deleteAlert(id) removes the alert and lowers
\* unreadCount by one exactly when the alert is unread in the local list at the
\* moment the patch is applied; a markAsRead(id) that completes while the
\* deletion is in flight makes the count go down once in total, not twice.
C19_DeleteAlertCountsCurrentState ==
    [][\A c \in calls, res \in HookResponses :
          (res.kind = "ok" /\ deleteAlertSettled(c, res)) =>
              /\ alerts' = SelectSeq(alerts, LAMBDA a : a.id # c.id)
              /\ unreadCount' =
                    (IF \E k \in DOMAIN alerts : alerts[k].id = c.id /\ ~alerts[k].is_read
                     THEN unreadCount - 1
                     ELSE unreadCount)]_vars

\* C20 (as claimed): once a fetch has set unreadCount to the number of unread
\* alerts, every interleaving of successful and failed markAsRead,
\* markAllAsRead and deleteAlert keeps unreadCount equal to the number of local
\* alerts with is_read false, and never negative.
C20_UnreadCountMatchesList ==
    /\ unreadCount = Unread(alerts)
    /\ unreadCount >= 0

\* C21: every toast shown keeps its own pending expiry, which removes it unless
\* it was dismissed before; removing a toast, by expiry or by dismissal,
\* removes that toast only and leaves the others as they are and in their
\* order; an expiry that runs after its toast was dismissed changes no toast.
C21_ToastsExpireIndependently ==
    [][/\ \A k \in DOMAIN toasts' : toasts'[k].id \in timers'
       /\ \A id \in 1..nextToast :
             /\ (ToastExpires(id) \/ dismissToast(id)) =>
                   toasts' = SelectSeq(toasts, LAMBDA t : t.id # id)
             /\ (ToastExpires(id) /\ id \notin Ids(toasts)) => toasts' = toasts]_vars

\* C21 witness: the second toast was dismissed while the first is still shown,
\* and the expiry of the dismissed toast is still pending.
C21_Witness ==
    /\ nextToast >= 2
    /\ Ids(toasts) = {1}
    /\ 2 \in timers

\* C22: in the upload flow a POST /analyze/custom request is issued only while
\* a file is selected, its validation result is valid and at least one series
\* is included; the request carries the selected file and a weight map of
\* exactly the included series, each with its current weight; runAnalysis with
\* no series included sets the include-a-series message and sends nothing.
C22_UploadSubmission ==
    [][LET included == {k \in DOMAIN seriesWeights : seriesWeights[k].include}
       IN /\ customReqs' # customReqs /\ Len(customReqs') > Len(customReqs) =>
                LET sent == customReqs'[Len(customReqs')]
                IN /\ file # null
                   /\ validation.set /\ validation.valid
                   /\ included # {}
                   /\ sent.file = file
                   /\ DOMAIN sent.weights = {seriesWeights[k].name : k \in included}
                   /\ \A k \in included :
                         sent.weights[seriesWeights[k].name] = seriesWeights[k].weight
          /\ ( /\ CallUploadRun
               /\ file # null
               /\ validation.set /\ validation.valid
               /\ included = {} ) =>
                (uploadError' = MsgIncludeSeries /\ customReqs' = customReqs)]_vars

\* C22 witness: a request was sent for A.csv after its series a2 was excluded
\* and the weight of a1 was edited to 2.
C22_Witness ==
    \E k \in DOMAIN customReqs :
        /\ customReqs[k].file = <<"A.csv">>
        /\ DOMAIN customReqs[k].weights = {"a1"}
        /\ customReqs[k].weights["a1"] = 2

\* C23 (as claimed): the validation result and the series weights in state
\* belong to the selected file, also when a second file is selected while the
\* validation of the first is in flight, so no request carries one file with
\* the weights of another file's series.
C23_ValidationBelongsToFile ==
    LET Names(f) == {SeriesOf(f)[k] : k \in DOMAIN SeriesOf(f)}
    IN /\ (validation.set /\ validation.valid /\ validation.series # null) =>
             (file # null /\ validation.series \in {SeriesOf(file), <<>>})
       /\ seriesWeights # <<>> =>
             (file # null /\ \A k \in DOMAIN seriesWeights : seriesWeights[k].name \in Names(file))
       /\ \A k \in DOMAIN customReqs :
             DOMAIN customReqs[k].weights \subseteq Names(customReqs[k].file)

\* C24 (as claimed): the position editor holds at least two rows in every
\* reachable state, loading a saved portfolio included.
C24_AtLeastTwoRows == Len(rows) >= 2

\* C25 (as claimed): in every reachable state selectedPortfolioId is null or
\* the id of a portfolio of the local list, also when a portfolio is loaded or
\* saved while a deletion is in flight.
C25_SelectedPortfolioIsListed ==
    selectedPortfolioId = 0 \/ selectedPortfolioId \in Ids(portfolios)

\* C26 (as claimed): analysisSaved is true only if the report displayed has
\* been saved to history: it becomes true only when a save of the report now
\* displayed succeeds, and it does not stay true when another report replaces
\* the one that was saved.
C26_SavedMeansDisplayedReportSaved ==
    [][/\ (analysisSaved' /\ ~analysisSaved) =>
             \E c \in calls, res \in HookResponses :
                 /\ res.kind = "ok"
                 /\ saveAnalysisSettled(c, res)
                 /\ Truthy(html')
                 /\ c.body.html_report = html'
       /\ (analysisSaved' /\ analysisSaved) => html' = html]_vars

\* C27 (as claimed): the portfolio name, the positions and the period that
\* Save to History sends are the ones submitted to produce the report being
\* saved, whatever was edited since the run ended.
C27_SavedAsSubmitted ==
    [][ClickSaveAnalysis =>
          \A c \in calls' \ calls :
              /\ c.body.portfolio_name = reportPayload.portfolio_name
              /\ c.body.positions = reportPayload.positions
              /\ c.body.analysis_period_days = reportPayload.analysis_period_days]_vars

\* C28 (as claimed): the response to a fetch never replaces a newer view of the
\* collection: an item a successful mutator added after the fetch was issued
\* is still in the local collection when that fetch's response is applied.
C28_FetchKeepsLaterPatch ==
    [][\A c \in calls, res \in HookResponses :
          /\ (res.kind = "ok" /\ \E data \in PortfolioLists : fetchPortfoliosSettled(c, res, data)) =>
                \A k \in DOMAIN portfolios :
                    portfolios[k].id > CreatedId(c.cid) => portfolios[k].id \in Ids(portfolios')
          /\ (res.kind = "ok" /\ \E data \in AnalysisLists : fetchAnalysesSettled(c, res, data)) =>
                \A k \in DOMAIN analyses :
                    analyses[k].id > CreatedId(c.cid) => analyses[k].id \in Ids(analyses')]_vars

\* C29 (as claimed): the create-portfolio request started from the Save
\* Portfolio modal carries the description typed in the modal (trimmed), and
\* null only when that description is empty.
C29_DescriptionIsSent ==
    [][\A d \in Descriptions :
          ModalSave(d) =>
             \A c \in calls' \ calls :
                 c.body.description = (IF Trim(d) # <<>> THEN Trim(d) ELSE null)]_vars

\* ------------------------------------------------- requests that settle

\* The row with this id is shown as searching.
RowLoading(id) == \E i \in DOMAIN rows : rows[i].id = id /\ rows[i].loading

\* A /resolve request that was not cancelled succeeds or fails.
ResolveSucceedsOrFails(rid) ==
    \E q \in resolveReqs :
        /\ q.rid = rid
        /\ \/ \E msg \in RejectMessages : ResolveRejected(q, msg)
           \/ ResolveNotOk(q)
           \/ \E data \in ResolveResponses : ResolveData(q, data)

\* Every request that is not cancelled eventually succeeds or fails.
RequestsSettle ==
    /\ \A rid \in 1..MaxResolve : WF_vars(ResolveSucceedsOrFails(rid))
    /\ WF_vars(AnalyzeResponds)

\* Ticker resolution and the submission, without the other edits.
NextLive ==
    \/ Resolution
    \/ ClickRunAnalysis
    \/ AnalyzeResponds

SpecLive == Init /\ [][NextLive]_vars /\ RequestsSettle

\* C30: when every request that is not cancelled eventually succeeds or fails,
\* every row that is searching eventually has loading = false and running
\* eventually returns to false after every submission.
C30_BusyFlagsClear ==
    /\ \A id \in RowIds : RowLoading(id) ~> ~RowLoading(id)
    /\ running ~> ~running

\* A row whose lookup was cancelled by a second lookup, the second one answered
\* and the row no longer searching while the cancelled request is still open.
C30_Witness ==
    \E q \in resolveReqs :
        /\ q.aborted
        /\ abortRefs[q.row] # q.rid
        /\ \A r \in resolveReqs : r.row = q.row => r.aborted
        /\ \E i \in DOMAIN rows : rows[i].id = q.row /\ ~rows[i].loading /\ Trim(rows[i].query) # <<>>

====
